---- MODULE Spec2Model ----
(***************************************************************************)
(* Lifecycle manager of the Android container platform: the instance       *)
(* table, the background provisioning task, the Redroid runtime adapter    *)
(* with its two port pools, the container orchestrator, the health sweep   *)
(* and the part of the network manager the lifecycle manager calls.        *)
(***************************************************************************)
EXTENDS Integers, FiniteSets, Sequences, TLC

\* ---------------------------------------------------------------- bounds
MaxInstances == 2      \* instance ids handed out by create_instance
PoolSize == 2          \* ports per pool (the program has 100 per pool)
MaxOps == 3            \* request budget (see CreateCost)
MaxRules == 4          \* rules a routing call may find in a chain it extends

\* ------------------------------------------------------ program constants
VncBase == 5900
AdbBase == 5555
None == 0

Ids == 1..MaxInstances
PortTypes == {"vnc", "adb"}
port_pool == [vnc |-> VncBase..(VncBase + PoolSize - 1),
              adb |-> AdbBase..(AdbBase + PoolSize - 1)]
redroid_images == {"11", "12", "13", "14"}
\* create requests: the OS version asked for and how the network manager's
\* configure_network ends ("none": no network configuration requested)
Requests == {<<"13", "none">>, <<"13", "proxy">>, <<"13", "nsfail">>, <<"10", "none">>}

VARIABLES
    instances,          \* android_instances table: id -> row
    request,            \* arguments handed to the background task
    pc,                 \* position of create_container_async per id
    container_info,     \* the task's local container_info (ports)
    containers,         \* the container runtime: handle -> sandbox
    used_ports,         \* RedroidManager.used_ports
    netns,              \* network namespaces that exist on the host
    active_namespaces,  \* NetworkIsolator.active_namespaces
    net_configs,        \* network manager's NetworkConfig rows
    proxy_routes,       \* namespaces with proxy routing configured
    sweep_pc,           \* position of check_instance_health
    sweep_rows,         \* rows the running sweep has loaded
    restarting,         \* restart_instance between its stop and its start
    steps,              \* provisioning steps performed so far, per id
    deleted_in,         \* status the row had when delete_instance removed it
    last_call,          \* the latest request: what it was and the calls it made
    ops,                \* number of requests and runtime events so far
    \* the script orchestrator (scripts/container-orchestrator.py)
    sc_containers,      \* self.containers: id -> the config tracked for it
    sc_docker,          \* the runtime's container android-<id>
    sc_restart,         \* restart_container's local config while it sleeps
    sc_policy,          \* self.config["restart_policy"]
    sc_seen,            \* what monitor_containers last saw of a container
    sc_running,         \* self.running
    sc_threads,         \* monitor threads still in their loop
    sc_cleaned,         \* cleanup_all has returned
    \* the host as the network isolator (network_isolator.py) changes it
    links,              \* host ends of the veth pairs that exist
    ns_rules,           \* namespaces whose per-address rules are installed
    ns_call,            \* the latest isolator call and how its steps went
    \* the traffic router (traffic_router.py) and the chains it writes
    namespace_routes,   \* TrafficRouter.namespace_routes: name -> config
    nat_output,         \* nat OUTPUT chain inside each namespace
    filter_output,      \* filter OUTPUT chain inside each namespace
    host_output,        \* filter OUTPUT chain of the host
    redsocks,           \* namespaces a redsocks process was started in
    rt_call,            \* the latest router call and what it returned
    ip_address,         \* NetworkConfig.ip_address of each stored row
    rejected,           \* the latest request a lifecycle handler refused
    \* arguments and results of the functions checked on their own
    cr_rules,           \* apply_custom_rules: the rules dictionary
    cr_chain,           \* apply_custom_rules: the chain it leaves
    tc_checks,          \* test_connectivity: how each command ends
    tc_results          \* test_connectivity: the dictionary returned

lifecyclevars == <<instances, request, pc, container_info, containers, used_ports,
                   netns, active_namespaces, net_configs, proxy_routes, sweep_pc,
                   sweep_rows, restarting, steps, deleted_in, last_call, ops>>

scriptvars == <<sc_containers, sc_docker, sc_restart, sc_policy, sc_seen>>

isolatorvars == <<links, ns_rules, ns_call>>

routervars == <<namespace_routes, nat_output, filter_output, host_output,
                redsocks, rt_call>>

purevars == <<cr_rules, cr_chain, tc_checks, tc_results>>

monitorvars == <<sc_running, sc_threads, sc_cleaned>>

restvars == <<ip_address, rejected, purevars, monitorvars>>

\* everything the network manager never touches
managerframe == <<instances, request, pc, container_info, containers, used_ports,
                  proxy_routes, sweep_pc, sweep_rows, restarting, steps,
                  deleted_in, last_call, ops, scriptvars, namespace_routes,
                  host_output, redsocks, rejected, purevars, monitorvars>>

\* everything the isolator never touches
hostvars == <<managerframe, net_configs, ip_address>>

vars == <<lifecyclevars, scriptvars, isolatorvars, routervars, restvars>>

AbsentInstance == [status |-> "absent", container_id |-> None,
                   android_version |-> "", network_config |-> FALSE,
                   vnc_port |-> None, adb_port |-> None,
                   error_message |-> ""]
NoContainer == [status |-> "absent", vnc |-> None, adb |-> None]
NoInfo == [vnc |-> None, adb |-> None]
NoRequest == [android_version |-> "", network_config |-> FALSE]

Exists(i) == instances[i].status # "absent"

\* A start, stop, restart or removal request as the calls of its handler
\* show it; any other request leaves NoCall
Call(op, id, calls) == [op |-> op, id |-> id, calls |-> calls]
NoCall == Call("", None, {})

\* configs handed to the script orchestrator, told apart by android_version
ScConfigs == {"13", "14"}
Untracked == ""
NoDocker == [status |-> "absent", android_version |-> ""]

LifecycleInit ==
    /\ instances = [i \in Ids |-> AbsentInstance]
    /\ request = [i \in Ids |-> NoRequest]
    /\ pc = [i \in Ids |-> "none"]
    /\ container_info = [i \in Ids |-> NoInfo]
    /\ containers = [i \in Ids |-> NoContainer]
    /\ used_ports = [t \in PortTypes |-> {}]
    /\ netns = {}
    /\ active_namespaces = {}
    /\ net_configs = {}
    /\ proxy_routes = {}
    /\ sweep_pc = "idle"
    /\ sweep_rows = {}
    /\ restarting = {}
    /\ steps = [i \in Ids |-> <<>>]
    /\ deleted_in = [i \in Ids |-> ""]
    /\ last_call = NoCall
    /\ ops = 0

\* What the monitor saw of a container: its status and, if it was
\* running, the health it was found in
Seen(id, status, health) == [id |-> id, status |-> status, health |-> health]
NoSeen == Seen(None, "", "")

RestartPolicies == {"always", "on-failure", "no"}

ScriptInitWith(policy) ==
    /\ sc_containers = [i \in Ids |-> Untracked]
    /\ sc_docker = [i \in Ids |-> NoDocker]
    /\ sc_restart = [i \in Ids |-> Untracked]
    /\ sc_policy = policy
    /\ sc_seen = NoSeen
    /\ sc_running = FALSE
    /\ sc_threads = 0
    /\ sc_cleaned = FALSE

\* with the default configuration
ScriptInit == ScriptInitWith("always")

\* An isolator call: the steps of it that failed, whether
\* destroy_namespace was run for the name, and the value returned
NsCall(op, ns, failed, destroyed, result) ==
    [op |-> op, ns |-> ns, failed |-> failed, destroyed |-> destroyed,
     result |-> result]
NoNsCall == NsCall("", None, {}, FALSE, FALSE)

IsolatorInit ==
    /\ links = {}
    /\ ns_rules = {}
    /\ ns_call = NoNsCall

\* A router call: the method, the namespace, for a routing call the
\* proxy type and proxy asked for and whether `which redsocks` succeeded,
\* and the value returned
RtCall(op, ns, detail, result) ==
    [op |-> op, ns |-> ns, detail |-> detail, result |-> result]
NoRtCall == RtCall("", None, <<>>, FALSE)

\* namespace_routes.get(ns): the routing type and the proxy it names
Route(type, proxy) == [type |-> type, proxy |-> proxy]
NoRoute == Route("", "")

RouterInit ==
    /\ namespace_routes = [ns \in 1..(MaxInstances + 1) |-> NoRoute]
    /\ nat_output = [ns \in 1..(MaxInstances + 1) |-> <<>>]
    /\ filter_output = [ns \in 1..(MaxInstances + 1) |-> <<>>]
    /\ host_output = <<>>
    /\ redsocks = {}
    /\ rt_call = NoRtCall

\* The rules dictionary of apply_custom_rules: the keys present and the
\* list under allowed_ports
CustomRules(keys, ports) == [keys |-> keys, allowed_ports |-> ports]
NoRules == CustomRules({}, <<>>)

\* A refused request: the handler, the id and the status code answered
Refusal(op, id, status) == [op |-> op, id |-> id, status |-> status]
NoRefusal == Refusal("", None, None)

ManagerInit ==
    /\ ip_address = [i \in Ids |-> None]
    /\ rejected = NoRefusal

Range(seq) == {seq[k] : k \in 1..Len(seq)}

\* test_connectivity: the keys of its results dictionary, and what it
\* returns: the dictionary, next to the checks whose command it ran
ResultKeys == {"namespace_exists", "interface_up", "ip_assigned",
               "default_route", "dns", "internet", "proxy"}
Connectivity(returned, results, evaluated) ==
    [returned |-> returned, results |-> results, evaluated |-> evaluated]
NotTested == Connectivity(FALSE, [c \in ResultKeys |-> FALSE], {})

\* the functions checked on their own, not called
PureInit ==
    /\ cr_rules = NoRules
    /\ cr_chain = <<>>
    /\ tc_checks = <<>>
    /\ tc_results = NotTested

ServicesInit == LifecycleInit /\ IsolatorInit /\ RouterInit /\ ManagerInit

Init == ServicesInit /\ ScriptInit /\ PureInit

\* ------------------------------------------------------- network manager
\* (variant for C8: proxy routing is configured before the namespace exists)
NetStepsRoutingFirst(net) ==
    CASE net = "proxy"  -> <<"routing", "namespace">>
      [] net = "ok"     -> <<"namespace">>
      [] net = "nsfail" -> <<"namespace">>
      [] OTHER          -> <<>>

\* configure_network as seen by its caller: the steps it performs for the
\* outcome, and whether it answers 200.
NetSteps(net) ==
    CASE net = "proxy"  -> <<"namespace", "routing">>
      [] net = "ok"     -> <<"namespace">>
      [] net = "nsfail" -> <<"namespace">>
      [] OTHER          -> <<>>

NetAnswers200(net) == net \in {"ok", "proxy", "nsfail"}

\* ------------------------------------------------------- create_instance
FreshId == CHOOSE i \in Ids : pc[i] = "none" /\ \A j \in Ids : pc[j] = "none" => i <= j

\* Units of the request budget a create takes: one for the first instance,
\* two for an instance created next to earlier ones.
CreateCost == IF \A i \in Ids : pc[i] = "none" THEN 1 ELSE 2

CreateInstance(version, net) ==
    /\ ops + CreateCost <= MaxOps
    /\ \E i \in Ids : pc[i] = "none"
    /\ LET i == FreshId IN
       /\ netns' = IF net \in {"ok", "proxy"} THEN netns \cup {i} ELSE netns
       /\ active_namespaces' = IF net \in {"ok", "proxy"}
                               THEN active_namespaces \cup {i}
                               ELSE active_namespaces
       /\ proxy_routes' = IF net = "proxy" THEN proxy_routes \cup {i} ELSE proxy_routes
       /\ net_configs' = IF NetAnswers200(net) THEN net_configs \cup {i} ELSE net_configs
       /\ steps' = [steps EXCEPT ![i] = NetSteps(net)]
       /\ instances' = [instances EXCEPT ![i] =
              [status |-> "creating", container_id |-> None,
               android_version |-> version,
               network_config |-> NetAnswers200(net),
               vnc_port |-> None, adb_port |-> None, error_message |-> ""]]
       /\ request' = [request EXCEPT ![i] =
              [android_version |-> version, network_config |-> NetAnswers200(net)]]
       /\ pc' = [pc EXCEPT ![i] = "queued"]
       /\ last_call' = NoCall
    /\ ops' = ops + CreateCost
    /\ UNCHANGED <<container_info, containers, used_ports, sweep_pc, sweep_rows,
                   restarting, deleted_in, scriptvars, isolatorvars, routervars, restvars>>

\* ------------------------------------------------- container orchestrator
\* ContainerOrchestrator.start_container: the runtime after the call. The
\* boolean it returns is dropped by every caller.
OrchStart(cid, ok) ==
    IF cid = None \/ containers[cid].status = "absent" THEN containers
    ELSE IF containers[cid].status = "running" THEN containers
    ELSE IF ok THEN [containers EXCEPT ![cid].status = "running"]
    ELSE containers

\* ContainerOrchestrator.stop_container
OrchStop(cid, ok) ==
    IF cid = None \/ containers[cid].status = "absent" THEN containers
    ELSE IF containers[cid].status # "running" THEN containers
    ELSE IF ok THEN [containers EXCEPT ![cid].status = "exited"]
    ELSE containers

\* ContainerOrchestrator.remove_container: stop if running, then remove;
\* the port sets of the runtime adapter are not touched.
OrchRemove(cid, outcome) ==
    IF cid = None \/ containers[cid].status = "absent" THEN containers
    ELSE IF outcome = "stopfail" /\ containers[cid].status = "running" THEN containers
    ELSE IF outcome = "rmfail"
         THEN [containers EXCEPT ![cid].status =
                  IF @ = "running" THEN "exited" ELSE @]
    ELSE [containers EXCEPT ![cid] = NoContainer]

\* ContainerOrchestrator.check_container_health
Healthy(cid, execOk) ==
    /\ cid # None
    /\ containers[cid].status = "running"
    /\ execOk

\* -------------------------------------------------------- runtime adapter
\* (variant for C1: the in-use set is not subtracted)
AvailableIgnoringUsed(t) == port_pool[t]

\* _allocate_port: the ports it may draw
Available(t) == port_pool[t] \ used_ports[t]

\* _allocate_port for both pools
Allocated(v, a) == [used_ports EXCEPT !.vnc = @ \cup {v}, !.adb = @ \cup {a}]

\* _release_port for both pools
Released(used, v, a) == [used EXCEPT !.vnc = @ \ {v}, !.adb = @ \ {a}]

\* ------------------------------------------------ create_container_async
\* (variant for C6: the except block records the message only)
HandlerKeepsStatus(i, msg) ==
    IF Exists(i)
    THEN [instances EXCEPT ![i].error_message = msg]
    ELSE instances

\* The except block: it loads the row again and marks it failed; with the
\* row gone, the attribute assignment on None raises out of the task.
HandlerInstances(i, msg) ==
    IF Exists(i)
    THEN [instances EXCEPT ![i].status = "failed", ![i].error_message = msg]
    ELSE instances

HandlerPc(i) == IF Exists(i) THEN "failed" ELSE "escaped"

ProvisionBegin(i) ==
    /\ pc[i] = "queued"
    /\ IF Exists(i)
       THEN /\ instances' = [instances EXCEPT ![i].status = "configuring"]
            /\ pc' = [pc EXCEPT ![i] = "create"]
       ELSE /\ instances' = instances
            /\ pc' = [pc EXCEPT ![i] = "escaped"]
    /\ UNCHANGED <<request, container_info, containers, used_ports, netns,
                   active_namespaces, net_configs, proxy_routes, sweep_pc,
                   sweep_rows, restarting, steps, ops, deleted_in, last_call, scriptvars, isolatorvars, routervars, restvars>>

\* RedroidManager.create_container raising before both ports are bound:
\* its except block releases what it can and fails on the unbound local.
CreateRaisesUnbound(i) ==
    /\ \/ request[i].android_version \notin redroid_images
       \/ Available("vnc") = {}
       \/ Available("adb") = {}
    /\ instances' = HandlerInstances(i, "UnboundLocalError")
    /\ pc' = [pc EXCEPT ![i] = HandlerPc(i)]
    /\ UNCHANGED <<containers, container_info, used_ports, steps>>

CreateDockerFails(i) ==
    /\ request[i].android_version \in redroid_images
    /\ \E v \in Available("vnc"), a \in Available("adb") :
          used_ports' = Released(Allocated(v, a), v, a)
    /\ instances' = HandlerInstances(i, "Container creation failed")
    /\ pc' = [pc EXCEPT ![i] = HandlerPc(i)]
    /\ steps' = [steps EXCEPT ![i] = Append(@, "ports")]
    /\ UNCHANGED <<containers, container_info>>

CreateSucceeds(i) ==
    /\ request[i].android_version \in redroid_images
    /\ \E v \in Available("vnc"), a \in Available("adb") :
          /\ used_ports' = Allocated(v, a)
          /\ containers' = [containers EXCEPT ![i] =
                               [status |-> "created", vnc |-> v, adb |-> a]]
          /\ container_info' = [container_info EXCEPT ![i] = [vnc |-> v, adb |-> a]]
    /\ pc' = [pc EXCEPT ![i] = "configure"]
    /\ steps' = [steps EXCEPT ![i] = @ \o <<"ports", "sandbox">>]
    /\ UNCHANGED <<instances>>

ProvisionCreate(i) ==
    /\ pc[i] = "create"
    /\ \/ CreateRaisesUnbound(i)
       \/ CreateDockerFails(i)
       \/ CreateSucceeds(i)
    /\ UNCHANGED <<request, netns, active_namespaces, net_configs, proxy_routes,
                   sweep_pc, sweep_rows, restarting, ops, deleted_in, last_call, scriptvars, isolatorvars, routervars, restvars>>

\* AndroidConfigurator.configure_instance: it polls the sandbox for boot
\* completion first, which only a started sandbox answers.
ProvisionConfigure(i, ok) ==
    /\ pc[i] = "configure"
    /\ IF containers[i].status = "running" /\ ok
       THEN /\ pc' = [pc EXCEPT ![i] = "start"]
            /\ steps' = [steps EXCEPT ![i] = Append(@, "configure")]
            /\ UNCHANGED <<instances>>
       ELSE /\ instances' = HandlerInstances(i,
                  IF containers[i].status = "running"
                  THEN "Android configuration failed"
                  ELSE "Android failed to become ready")
            /\ pc' = [pc EXCEPT ![i] = HandlerPc(i)]
            /\ steps' = steps
    /\ UNCHANGED <<request, container_info, containers, used_ports, netns,
                   active_namespaces, net_configs, proxy_routes, sweep_pc,
                   sweep_rows, restarting, ops, deleted_in, last_call, scriptvars, isolatorvars, routervars, restvars>>

ProvisionStart(i, ok) ==
    /\ pc[i] = "start"
    /\ containers' = OrchStart(i, ok)
    /\ pc' = [pc EXCEPT ![i] = "finish"]
    /\ steps' = [steps EXCEPT ![i] = Append(@, "start")]
    /\ UNCHANGED <<instances, request, container_info, used_ports, netns,
                   active_namespaces, net_configs, proxy_routes, sweep_pc,
                   sweep_rows, restarting, ops, deleted_in, last_call, scriptvars, isolatorvars, routervars, restvars>>

\* The location request and the final update of the row.
ProvisionFinish(i, ok) ==
    /\ pc[i] = "finish"
    /\ IF ~ok
       THEN /\ instances' = HandlerInstances(i, "location request failed")
            /\ pc' = [pc EXCEPT ![i] = HandlerPc(i)]
       ELSE IF Exists(i)
            THEN /\ instances' = [instances EXCEPT
                       ![i].container_id = i,
                       ![i].vnc_port = container_info[i].vnc,
                       ![i].adb_port = container_info[i].adb,
                       ![i].status = "running"]
                 /\ pc' = [pc EXCEPT ![i] = "done"]
            ELSE /\ instances' = instances
                 /\ pc' = [pc EXCEPT ![i] = "escaped"]
    /\ UNCHANGED <<request, container_info, containers, used_ports, netns,
                   active_namespaces, net_configs, proxy_routes, sweep_pc,
                   sweep_rows, restarting, steps, ops, deleted_in, last_call, scriptvars, isolatorvars, routervars, restvars>>

\* ------------------------------------------------- start / stop / restart
\* The body of start_instance on an existing row: the result of the
\* orchestrator's start is not looked at.
StartBody(i, ok) ==
    IF instances[i].status = "running"
    THEN /\ instances' = instances
         /\ containers' = containers
    ELSE /\ containers' = OrchStart(instances[i].container_id, ok)
         /\ instances' = [instances EXCEPT ![i].status = "running"]

\* What start_instance does besides setting the status
StartCalls(i) ==
    IF instances[i].status = "running" THEN {}
    ELSE {"start_container", "started_at", "last_heartbeat"}

\* What stop_instance does besides setting the status
StopCalls(i) == {"stop_container", "stopped_at"}

\* The body of stop_instance on an existing row.
StopBody(i, ok) ==
    /\ containers' = OrchStop(instances[i].container_id, ok)
    /\ instances' = [instances EXCEPT ![i].status = "stopped"]

StartInstance(i, ok) ==
    /\ ops < MaxOps
    /\ Exists(i)
    /\ StartBody(i, ok)
    /\ last_call' = Call("start", i, StartCalls(i))
    /\ ops' = ops + 1
    /\ UNCHANGED <<request, pc, container_info, used_ports, netns,
                   active_namespaces, net_configs, proxy_routes, sweep_pc,
                   sweep_rows, restarting, steps, deleted_in, scriptvars, isolatorvars, routervars, restvars>>

StopInstance(i, ok) ==
    /\ ops < MaxOps
    /\ Exists(i)
    /\ StopBody(i, ok)
    /\ last_call' = Call("stop", i, StopCalls(i))
    /\ ops' = ops + 1
    /\ UNCHANGED <<request, pc, container_info, used_ports, netns,
                   active_namespaces, net_configs, proxy_routes, sweep_pc,
                   sweep_rows, restarting, steps, deleted_in, scriptvars, isolatorvars, routervars, restvars>>

\* restart_instance up to its sleep: stop_instance
RestartBegin(i, ok) ==
    /\ ops < MaxOps
    /\ Exists(i)
    /\ i \notin restarting
    /\ StopBody(i, ok)
    /\ restarting' = restarting \cup {i}
    /\ last_call' = Call("restart_stop", i, StopCalls(i))
    /\ ops' = ops + 1
    /\ UNCHANGED <<request, pc, container_info, used_ports, netns,
                   active_namespaces, net_configs, proxy_routes, sweep_pc,
                   sweep_rows, steps, deleted_in, scriptvars, isolatorvars, routervars, restvars>>

\* restart_instance after its sleep: start_instance, which answers 404 when
\* the row was deleted in between
RestartFinish(i, ok) ==
    /\ i \in restarting
    /\ restarting' = restarting \ {i}
    /\ IF Exists(i)
       THEN StartBody(i, ok) /\ last_call' = Call("restart_start", i, StartCalls(i))
       ELSE UNCHANGED <<instances, containers>> /\ last_call' = Call("restart_start", i, {})
    /\ UNCHANGED <<request, pc, container_info, used_ports, netns,
                   active_namespaces, net_configs, proxy_routes, sweep_pc,
                   sweep_rows, steps, ops, deleted_in, scriptvars, isolatorvars, routervars, restvars>>

\* --------------------------------------------------------- delete_instance
\* cleanup_network of the network manager, reached or not
CleanedUp(i, netOk) == netOk /\ i \in net_configs

\* The teardown steps ContainerOrchestrator.remove_container attempts
OrchRemoveCalls(cid, outcome) ==
    IF cid = None \/ containers[cid].status = "absent" THEN {}
    ELSE IF containers[cid].status # "running" THEN {"remove"}
    ELSE IF outcome = "stopfail" THEN {"stop"}
    ELSE {"stop", "remove"}

\* The teardown steps delete_instance attempts
DeleteCalls(i, outcome) ==
    OrchRemoveCalls(instances[i].container_id, outcome)
        \cup {"cleanup_network", "delete_record"}

DeleteInstance(i, outcome, netOk) ==
    /\ ops < MaxOps
    /\ Exists(i)
    /\ containers' = OrchRemove(instances[i].container_id, outcome)
    /\ netns' = IF CleanedUp(i, netOk) THEN netns \ {i} ELSE netns
    /\ active_namespaces' = IF CleanedUp(i, netOk)
                            THEN active_namespaces \ {i}
                            ELSE active_namespaces
    /\ net_configs' = IF CleanedUp(i, netOk) THEN net_configs \ {i} ELSE net_configs
    /\ instances' = [instances EXCEPT ![i] = AbsentInstance]
    /\ deleted_in' = [deleted_in EXCEPT ![i] = instances[i].status]
    /\ last_call' = Call("delete", i, DeleteCalls(i, outcome))
    /\ ops' = ops + 1
    /\ UNCHANGED <<request, pc, container_info, used_ports, proxy_routes,
                   sweep_pc, sweep_rows, restarting, steps, scriptvars, isolatorvars, routervars, restvars>>

\* ------------------------------------------------------------ health sweep
\* check_instance_health: the query for the running rows. A sweep that
\* finds no running row changes nothing and is left out as a step.
SweepRead ==
    /\ sweep_pc = "idle"
    /\ \E j \in Ids : instances[j].status = "running"
    /\ sweep_rows' = {[id |-> i, container_id |-> instances[i].container_id] :
                         i \in {j \in Ids : instances[j].status = "running"}}
    /\ sweep_pc' = "loaded"
    /\ UNCHANGED <<instances, request, pc, container_info, containers,
                   used_ports, netns, active_namespaces, net_configs,
                   proxy_routes, restarting, steps, ops, deleted_in, last_call, scriptvars, isolatorvars, routervars, restvars>>

\* The row after the sweep's loop and commit
Swept(i, execOk) ==
    IF \E r \in sweep_rows : r.id = i /\ ~Healthy(r.container_id, execOk)
    THEN [instances[i] EXCEPT !.status = "failed",
                              !.error_message = "Container health check failed"]
    ELSE instances[i]

\* check_instance_health: the loop over the loaded rows and the commit,
\* which fails as a whole when a loaded row no longer exists
SweepCommit(execOk) ==
    /\ sweep_pc = "loaded"
    /\ instances' = IF \A r \in sweep_rows : Exists(r.id)
                    THEN [i \in Ids |-> Swept(i, execOk)]
                    ELSE instances
    /\ sweep_pc' = "idle"
    /\ sweep_rows' = {}
    /\ UNCHANGED <<request, pc, container_info, containers, used_ports, netns,
                   active_namespaces, net_configs, proxy_routes, restarting,
                   steps, ops, deleted_in, last_call, scriptvars, isolatorvars, routervars, restvars>>

\* ------------------------------------------ runtime and adapter operations
\* The sandbox process dies.  (The runtime bringing an exited sandbox back
\* under its restart policy has the effect of RedroidStart.)
Crash(i) ==
    /\ containers[i].status = "running"
    /\ containers' = [containers EXCEPT ![i].status = "exited"]
    /\ UNCHANGED <<ops, instances, request, pc, container_info, used_ports, netns,
                   active_namespaces, net_configs, proxy_routes, sweep_pc,
                   sweep_rows, restarting, steps, deleted_in, last_call, scriptvars, isolatorvars, routervars, restvars>>

\* RedroidManager.start_container
RedroidStart(i, ok) ==
    /\ ops < MaxOps
    /\ containers[i].status \in {"created", "exited"}
    /\ containers' = IF ok THEN [containers EXCEPT ![i].status = "running"]
                     ELSE containers
    /\ last_call' = NoCall
    /\ ops' = ops + 1
    /\ UNCHANGED <<instances, request, pc, container_info, used_ports, netns,
                   active_namespaces, net_configs, proxy_routes, sweep_pc,
                   sweep_rows, restarting, steps, deleted_in, scriptvars, isolatorvars, routervars, restvars>>

\* The steps RedroidManager.remove_container attempts
RedroidRemoveCalls(outcome) ==
    CASE outcome = "stopfail" -> {"stop"}
      [] outcome = "rmfail"   -> {"stop", "remove"}
      [] OTHER                -> {"stop", "remove", "release_ports"}

\* RedroidManager.remove_container: stop, force-remove, then release the
\* ports of the sandbox's bindings; a raising stop or remove ends the call.
RedroidRemove(i, outcome) ==
    /\ ops < MaxOps
    /\ containers[i].status # "absent"
    /\ CASE outcome = "stopfail" ->
              /\ containers' = containers
              /\ used_ports' = used_ports
         [] outcome = "rmfail" ->
              /\ containers' = [containers EXCEPT ![i].status = "exited"]
              /\ used_ports' = used_ports
         [] OTHER ->
              /\ containers' = [containers EXCEPT ![i] = NoContainer]
              /\ used_ports' = Released(used_ports, containers[i].vnc, containers[i].adb)
    /\ last_call' = Call("redroid_remove", i, RedroidRemoveCalls(outcome))
    /\ ops' = ops + 1
    /\ UNCHANGED <<instances, request, pc, container_info, netns,
                   active_namespaces, net_configs, proxy_routes, sweep_pc,
                   sweep_rows, restarting, steps, deleted_in, scriptvars, isolatorvars, routervars, restvars>>

RemoveOutcomes == {"ok", "stopfail", "rmfail"}

Next ==
    \/ \E r \in Requests : CreateInstance(r[1], r[2])
    \/ \E i \in Ids : ProvisionBegin(i)
    \/ \E i \in Ids : ProvisionCreate(i)
    \/ \E i \in Ids, ok \in BOOLEAN : ProvisionConfigure(i, ok)
    \/ \E i \in Ids, ok \in BOOLEAN : ProvisionStart(i, ok)
    \/ \E i \in Ids, ok \in BOOLEAN : ProvisionFinish(i, ok)
    \/ \E i \in Ids, ok \in BOOLEAN : StartInstance(i, ok)
    \/ \E i \in Ids, ok \in BOOLEAN : StopInstance(i, ok)
    \/ \E i \in Ids, ok \in BOOLEAN : RestartBegin(i, ok)
    \/ \E i \in Ids, ok \in BOOLEAN : RestartFinish(i, ok)
    \/ \E i \in Ids, o \in RemoveOutcomes, netOk \in BOOLEAN : DeleteInstance(i, o, netOk)
    \/ SweepRead
    \/ \E execOk \in BOOLEAN : SweepCommit(execOk)
    \/ \E i \in Ids : Crash(i)
    \/ \E i \in Ids, ok \in BOOLEAN : RedroidStart(i, ok)
    \/ \E i \in Ids, o \in RemoveOutcomes : RedroidRemove(i, o)

Spec == Init /\ [][Next]_vars

\* The background task of an instance: the event loop runs every queued
\* task, and each external call it awaits returns or times out.
Provision(i) ==
    \/ ProvisionBegin(i)
    \/ ProvisionCreate(i)
    \/ \E ok \in BOOLEAN : ProvisionConfigure(i, ok)
    \/ \E ok \in BOOLEAN : ProvisionStart(i, ok)
    \/ \E ok \in BOOLEAN : ProvisionFinish(i, ok)

\* The monitor loop runs a sweep every 30 seconds.
Sweep == SweepRead \/ \E execOk \in BOOLEAN : SweepCommit(execOk)

FairSpec ==
    /\ Init /\ [][Next]_vars
    /\ \A i \in Ids : WF_vars(Provision(i))
    /\ WF_vars(Sweep)

InState(i, states) == Exists(i) /\ instances[i].status \in states

\* ---------------------------------------------------- script orchestrator
\* create_container(container_id, config): docker run under the name
\* android-<id>, which fails when a container of that name exists; only a
\* successful run is entered into self.containers.
ScRuns(i, ok) == ok /\ sc_docker[i].status = "absent"

ScCreated(i, cfg, ok) ==
    /\ sc_docker' = IF ScRuns(i, ok)
                    THEN [sc_docker EXCEPT ![i] =
                             [status |-> "running", android_version |-> cfg]]
                    ELSE sc_docker
    /\ sc_containers' = IF ScRuns(i, ok)
                        THEN [sc_containers EXCEPT ![i] = cfg]
                        ELSE sc_containers

ScCreate(i, cfg, ok) ==
    /\ ScCreated(i, cfg, ok)
    /\ sc_seen' = NoSeen
    /\ UNCHANGED <<sc_restart, sc_policy, lifecyclevars, isolatorvars, routervars, restvars>>

\* stop_container(container_id): docker stop, docker rm, del self.containers[id]
ScStopped(i) ==
    /\ sc_docker' = [sc_docker EXCEPT ![i] = NoDocker]
    /\ sc_containers' = [sc_containers EXCEPT ![i] = Untracked]

ScStop(i) ==
    /\ sc_containers[i] # Untracked
    /\ ScStopped(i)
    /\ sc_seen' = NoSeen
    /\ UNCHANGED <<sc_restart, sc_policy, lifecyclevars, isolatorvars, routervars, restvars>>

\* The container's process dies.
ScCrash(i) ==
    /\ sc_docker[i].status = "running"
    /\ sc_docker' = [sc_docker EXCEPT ![i].status = "exited"]
    /\ sc_seen' = NoSeen
    /\ UNCHANGED <<sc_containers, sc_restart, sc_policy, lifecyclevars, isolatorvars, routervars, restvars>>

\* restart_container up to its sleep: it keeps the tracked config in a local
\* and calls stop_container.
ScRestartBegin(i) ==
    /\ sc_containers[i] # Untracked
    /\ sc_restart[i] = Untracked
    /\ sc_restart' = [sc_restart EXCEPT ![i] = sc_containers[i]]
    /\ ScStopped(i)
    /\ sc_seen' = NoSeen
    /\ UNCHANGED <<sc_policy, lifecyclevars, isolatorvars, routervars, restvars>>

\* restart_container after its sleep: create_container(id, config)
ScRestartFinish(i, ok) ==
    /\ sc_restart[i] # Untracked
    /\ ScCreated(i, sc_restart[i], ok)
    /\ sc_restart' = [sc_restart EXCEPT ![i] = Untracked]
    /\ sc_seen' = NoSeen
    /\ UNCHANGED <<sc_policy, lifecyclevars, isolatorvars, routervars, restvars>>

\* get_container_status: the status docker inspect reports, not_found
\* when it exits non-zero, unknown when it raises
ScStatus(i, inspect) ==
    IF inspect = "raise" THEN "unknown"
    ELSE IF sc_docker[i].status = "absent" THEN "not_found"
    ELSE sc_docker[i].status

\* check_container_health: how docker exec of the health script ends
Probes == {"exit0", "exit1", "exit2", "timeout", "raise"}
ScHealth(probe) ==
    CASE probe = "exit0"   -> "healthy"
      [] probe = "exit1"   -> "warning"
      [] probe = "timeout" -> "timeout"
      [] probe = "raise"   -> "error"
      [] OTHER             -> "critical"

\* what get_container_status hands to the monitor: health is looked at
\* only for a running container
ScStatusInfo(i, inspect, probe) ==
    Seen(i, ScStatus(i, inspect),
         IF ScStatus(i, inspect) = "running" THEN ScHealth(probe) ELSE "")

\* restart_container up to its sleep, as the monitor calls it
ScRestarted(i) ==
    /\ sc_restart' = [sc_restart EXCEPT ![i] = sc_containers[i]]
    /\ ScStopped(i)

\* (variant for C30: a critical container is restarted only under the
\* policy always)
ScMonitorPolicyOnly(i, inspect, probe) ==
    /\ sc_containers[i] # Untracked
    /\ sc_restart[i] = Untracked
    /\ sc_seen' = ScStatusInfo(i, inspect, probe)
    /\ IF sc_seen'.status # "running"
       THEN IF sc_policy = "always" THEN ScRestarted(i)
            ELSE UNCHANGED <<sc_containers, sc_docker, sc_restart>>
       ELSE IF sc_seen'.health = "critical" /\ sc_policy = "always"
            THEN ScRestarted(i)
            ELSE UNCHANGED <<sc_containers, sc_docker, sc_restart>>
    /\ UNCHANGED <<sc_policy, lifecyclevars, isolatorvars, routervars, restvars>>

\* monitor_containers: one tracked container of a sweep
ScMonitor(i, inspect, probe) ==
    /\ sc_containers[i] # Untracked
    /\ sc_restart[i] = Untracked
    /\ sc_seen' = ScStatusInfo(i, inspect, probe)
    /\ IF sc_seen'.status # "running"
       THEN IF sc_policy = "always" THEN ScRestarted(i)
            ELSE UNCHANGED <<sc_containers, sc_docker, sc_restart>>
       ELSE IF sc_seen'.health = "critical"
            THEN ScRestarted(i)
            ELSE UNCHANGED <<sc_containers, sc_docker, sc_restart>>
    /\ UNCHANGED <<sc_policy, lifecyclevars, isolatorvars, routervars, restvars>>

ScriptNext ==
    \/ \E i \in Ids, cfg \in ScConfigs, ok \in BOOLEAN : ScCreate(i, cfg, ok)
    \/ \E i \in Ids, inspect \in {"ok", "raise"}, probe \in Probes :
          ScMonitor(i, inspect, probe)
    \/ \E i \in Ids : ScStop(i)
    \/ \E i \in Ids : ScCrash(i)
    \/ \E i \in Ids : ScRestartBegin(i)
    \/ \E i \in Ids, ok \in BOOLEAN : ScRestartFinish(i, ok)

\* the script orchestrator under any configured restart policy
ScriptSpecInit ==
    /\ ServicesInit
    /\ PureInit
    /\ \E policy \in RestartPolicies : ScriptInitWith(policy)

ScriptSpec == ScriptSpecInit /\ [][ScriptNext]_vars

\* ------------------------------------------------- the monitor's threads
\* what the calls below leave alone besides the script's own state
monitorframe == <<lifecyclevars, isolatorvars, routervars, ip_address,
                  rejected, purevars>>

\* start_monitoring: nothing if self.running; else set it and start a
\* thread on monitor_containers
StartMonitoring ==
    /\ sc_threads < MaxOps
    /\ IF sc_running
       THEN UNCHANGED <<sc_running, sc_threads>>
       ELSE /\ sc_running' = TRUE
            /\ sc_threads' = sc_threads + 1
    /\ UNCHANGED <<sc_cleaned, scriptvars, monitorframe>>

\* stop_monitoring: clear self.running and wait up to 5 s for the thread;
\* the wait changes nothing, it returns when the thread has left its loop
\* (MonitorExit before the next call) or when the time is up
StopMonitoring ==
    /\ sc_running' = FALSE
    /\ UNCHANGED <<sc_threads, sc_cleaned, scriptvars, monitorframe>>

\* monitor_containers: a thread evaluates `while self.running` after its
\* sleep and leaves the loop
MonitorExit ==
    /\ sc_threads > 0
    /\ ~sc_running
    /\ sc_threads' = sc_threads - 1
    /\ UNCHANGED <<sc_running, sc_cleaned, scriptvars, monitorframe>>

\* monitor_containers: a thread in its loop visits a tracked container
MonitorSweep(i, inspect, probe) ==
    /\ sc_threads > 0
    /\ ScMonitor(i, inspect, probe)

\* cleanup_all: stop_container for every tracked id, then stop_monitoring
CleanupAll ==
    /\ sc_docker' = [i \in Ids |->
           IF sc_containers[i] # Untracked THEN NoDocker ELSE sc_docker[i]]
    /\ sc_containers' = [i \in Ids |-> Untracked]
    /\ sc_seen' = NoSeen
    /\ sc_running' = FALSE
    /\ sc_cleaned' = TRUE
    /\ UNCHANGED <<sc_restart, sc_policy, sc_threads, monitorframe>>

\* create_container called by the user, who calls cleanup_all last
ScCreateBeforeCleanup(i, cfg, ok) ==
    /\ ~sc_cleaned
    /\ ScCreate(i, cfg, ok)

\* The script orchestrator with its monitor thread, up to cleanup_all and
\* what the threads still do after it
MonitorNext ==
    \/ \E i \in Ids, cfg \in ScConfigs, ok \in BOOLEAN : ScCreateBeforeCleanup(i, cfg, ok)
    \/ \E i \in Ids : ScCrash(i)
    \/ StartMonitoring
    \/ StopMonitoring
    \/ MonitorExit
    \/ \E i \in Ids, inspect \in {"ok", "raise"}, probe \in Probes :
          MonitorSweep(i, inspect, probe)
    \/ \E i \in Ids, ok \in BOOLEAN : ScRestartFinish(i, ok)
    \/ CleanupAll

MonitorSpec == ScriptSpecInit /\ [][MonitorNext]_vars

\* ------------------------------------------- the service with a full table
\* The lifecycle manager once every id has been created and provisioned
\* with nothing failing: each row Running with its sandbox and its two
\* ports, no network configuration requested.
Provisioned(i) ==
    [status |-> "running", container_id |-> i, android_version |-> "13",
     network_config |-> FALSE, vnc_port |-> VncBase + i - 1,
     adb_port |-> AdbBase + i - 1, error_message |-> ""]

ProvisionedInit ==
    /\ instances = [i \in Ids |-> Provisioned(i)]
    /\ request = [i \in Ids |-> [android_version |-> "13", network_config |-> FALSE]]
    /\ pc = [i \in Ids |-> "done"]
    /\ container_info = [i \in Ids |-> [vnc |-> VncBase + i - 1, adb |-> AdbBase + i - 1]]
    /\ containers = [i \in Ids |-> [status |-> "running", vnc |-> VncBase + i - 1,
                                     adb |-> AdbBase + i - 1]]
    /\ used_ports = [vnc |-> {VncBase + i - 1 : i \in Ids},
                     adb |-> {AdbBase + i - 1 : i \in Ids}]
    /\ netns = {}
    /\ active_namespaces = {}
    /\ net_configs = {}
    /\ proxy_routes = {}
    /\ sweep_pc = "idle"
    /\ sweep_rows = {}
    /\ restarting = {}
    /\ steps = [i \in Ids |-> <<"ports", "sandbox", "configure", "start">>]
    /\ deleted_in = [i \in Ids |-> ""]
    /\ last_call = NoCall
    /\ ops = 0
    /\ ScriptInit
    /\ IsolatorInit
    /\ RouterInit
    /\ ManagerInit
    /\ PureInit

\* The requests and events that remain once no id is left to create
ProvisionedNext ==
    \/ \E i \in Ids, ok \in BOOLEAN : StartInstance(i, ok)
    \/ \E i \in Ids, ok \in BOOLEAN : StopInstance(i, ok)
    \/ \E i \in Ids, ok \in BOOLEAN : RestartBegin(i, ok)
    \/ \E i \in Ids, ok \in BOOLEAN : RestartFinish(i, ok)
    \/ \E i \in Ids, o \in RemoveOutcomes, netOk \in BOOLEAN : DeleteInstance(i, o, netOk)
    \/ SweepRead
    \/ \E execOk \in BOOLEAN : SweepCommit(execOk)
    \/ \E i \in Ids : Crash(i)
    \/ \E i \in Ids, ok \in BOOLEAN : RedroidStart(i, ok)
    \/ \E i \in Ids, o \in RemoveOutcomes : RedroidRemove(i, o)

ProvisionedSpec == ProvisionedInit /\ [][ProvisionedNext]_vars

\* ------------------------------------------------------ refused requests
\* status codes of the HTTPExceptions the handlers raise
NotFound == 404
InternalError == 500

\* handlers that look the instance up inside `try: ... except Exception`
GuardedOps == {"start", "stop", "restart", "delete", "logs", "stats", "exec"}
\* of these, the ones that also refuse an instance without a container
ContainerOps == {"logs", "stats", "exec"}
HandlerOps == GuardedOps \cup {"get"}

\* The status a handler answers once it has raised HTTPException(404):
\* HTTPException is an Exception, so the handler's own `except Exception`
\* catches it and raises HTTPException(500) in its place; get_instance has
\* no try block. restart_instance gets the 500 of stop_instance and wraps
\* it again.
RefusalStatus(op) == IF op \in GuardedOps THEN InternalError ELSE NotFound

\* A handler finds no row for the id (or no container_id on it): it
\* raises before any call or commit
Refused(op, i) ==
    /\ \/ ~Exists(i)
       \/ op \in ContainerOps /\ instances[i].container_id = None
    /\ rejected' = Refusal(op, i, RefusalStatus(op))
    /\ UNCHANGED <<lifecyclevars, scriptvars, isolatorvars, routervars,
                   ip_address, purevars, monitorvars>>

\* the handlers of the lifecycle manager next to create and delete
ApiNext ==
    \/ \E r \in Requests : CreateInstance(r[1], r[2])
    \/ \E i \in Ids, o \in RemoveOutcomes, netOk \in BOOLEAN : DeleteInstance(i, o, netOk)
    \/ \E op \in HandlerOps, i \in Ids : Refused(op, i)

ApiSpec == Init /\ [][ApiNext]_vars

\* ------------------------------------------------------ network isolator
\* Namespace names handed to the isolator. The host end of a namespace's
\* veth pair is named after the first 8 characters of the namespace name
\* only, so two names can share one link name: here the last name shares
\* it with the first.
NsNames == 1..(MaxInstances + 1)
veth_host(ns) == ns % MaxInstances

\* The commands create_namespace runs with check=True, in its order
CheckedSteps == <<"netns_add", "link_add", "link_set_netns", "link_up",
                  "lo_up", "veth_up", "addr_add", "route_add">>
\* and those it runs with check=False: the host address, the rules
UncheckedSteps == {"host_addr", "iptables"}
StepsBeforeHostAddr == {"netns_add", "link_add", "link_set_netns", "link_up"}

\* The checked steps that exit non-zero: the one the environment fails
\* (env), adding a namespace that exists, adding a link whose name exists
ExitsNonZero(ns, env) ==
    {s \in {CheckedSteps[k] : k \in DOMAIN CheckedSteps} :
        \/ s = env
        \/ s = "netns_add" /\ ns \in netns
        \/ s = "link_add" /\ veth_host(ns) \in links}

\* The step that raises CalledProcessError: the first of them, if any
Raised(ns, env) ==
    LET ks == {k \in DOMAIN CheckedSteps : CheckedSteps[k] \in ExitsNonZero(ns, env)}
    IN  IF ks = {} THEN {}
        ELSE {CheckedSteps[CHOOSE k \in ks : \A j \in ks : k <= j]}

\* The unchecked steps that were run and exited non-zero, unnoticed
Ignored(ns, env, unchecked) ==
    {u \in unchecked :
        \/ u = "host_addr" /\ Raised(ns, env) \cap StepsBeforeHostAddr = {}
        \/ u = "iptables" /\ Raised(ns, env) = {}}

\* _cleanup_namespace_iptables: both chains are flushed whole and only the
\* default rules are put back, so no per-address rule survives
CleanedRules == {}

\* destroy_namespace: flush the rules, delete the link named after the
\* name's prefix, delete the namespace, forget the name
\* (the chains inside the namespace go with it; the host's OUTPUT chain
\* is not among the chains flushed)
Destroyed(ns) ==
    /\ ns_rules' = CleanedRules
    /\ links' = links \ {veth_host(ns)}
    /\ netns' = netns \ {ns}
    /\ active_namespaces' = active_namespaces \ {ns}
    /\ nat_output' = [nat_output EXCEPT ![ns] = <<>>]
    /\ filter_output' = [filter_output EXCEPT ![ns] = <<>>]

DestroyNamespace(ns) ==
    /\ Destroyed(ns)
    /\ ns_call' = NsCall("destroy_namespace", ns, {}, TRUE, TRUE)
    /\ rt_call' = NoRtCall
    /\ UNCHANGED hostvars

\* create_namespace: every command in order; a checked command that exits
\* non-zero ends it with destroy_namespace and False
Created(ns, env, unchecked) ==
    /\ IF Raised(ns, env) = {}
       THEN /\ netns' = netns \cup {ns}
            /\ links' = links \cup {veth_host(ns)}
            /\ ns_rules' = IF "iptables" \in unchecked THEN ns_rules
                           ELSE ns_rules \cup {ns}
            /\ active_namespaces' = active_namespaces \cup {ns}
            /\ UNCHANGED <<nat_output, filter_output>>
       ELSE Destroyed(ns)
    /\ ns_call' = NsCall("create_namespace", ns,
                         Raised(ns, env) \cup Ignored(ns, env, unchecked),
                         Raised(ns, env) # {}, Raised(ns, env) = {})
    /\ rt_call' = NoRtCall

\* (variant for C18: the failure branch returns False without cleaning up,
\* leaving what the steps before the failing one have made)
CreateNamespaceNoCleanup(ns, env, unchecked) ==
    /\ netns' = IF "netns_add" \in Raised(ns, env) THEN netns ELSE netns \cup {ns}
    /\ links' = IF Raised(ns, env) \cap {"netns_add", "link_add"} # {} THEN links
                ELSE links \cup {veth_host(ns)}
    /\ ns_rules' = IF Raised(ns, env) # {} \/ "iptables" \in unchecked THEN ns_rules
                   ELSE ns_rules \cup {ns}
    /\ active_namespaces' = IF Raised(ns, env) # {} THEN active_namespaces
                            ELSE active_namespaces \cup {ns}
    /\ ns_call' = NsCall("create_namespace", ns,
                         Raised(ns, env) \cup Ignored(ns, env, unchecked),
                         FALSE, Raised(ns, env) = {})
    /\ rt_call' = NoRtCall
    /\ UNCHANGED <<hostvars, nat_output, filter_output>>

\* create_namespace called on its own
CreateNamespace(ns, env, unchecked) ==
    /\ Created(ns, env, unchecked)
    /\ UNCHANGED hostvars

NetNext ==
    \/ \E ns \in NsNames,
          env \in {CheckedSteps[k] : k \in DOMAIN CheckedSteps} \cup {"none"},
          unchecked \in SUBSET UncheckedSteps : CreateNamespace(ns, env, unchecked)
    \/ \E ns \in NsNames : DestroyNamespace(ns)

NetSpec == Init /\ [][NetNext]_vars

\* ------------------------------------------- network manager's handlers
\* generate_private_ip: random.randint(FirstHostPart, LastHostPart) added
\* to 172.20.0.0; the two reserved addresses lie below the range, so the
\* loop returns its first draw. No assigned address is consulted.
FirstHostPart == 100
LastHostPart == 65000
\* base_network.network_address + host_part, octet by octet
Address(host_part) ==
    <<172, 20 + host_part \div 65536, (host_part \div 256) % 256, host_part % 256>>
HostPart(addr) == addr[3] * 256 + addr[4]
\* the addresses the loop refuses, and the one create_namespace gives the
\* host end of every link and routes every namespace through
ReservedGateways == {<<172, 20, 0, 1>>, <<172, 20, 0, 2>>}
BridgeGateway == <<172, 20, 1, 1>>
\* the draws considered: the ends of the range, one next to an end, and
\* the one that gives the address of the bridge gateway
HostParts == {FirstHostPart, FirstHostPart + 1, HostPart(BridgeGateway),
              LastHostPart}
generate_private_ip == {Address(h) : h \in HostParts} \ ReservedGateways

\* configure_network without a proxy or custom rules: the address drawn is
\* handed to create_namespace, whose result is dropped; the row is added
\* under the instance id, and the commit fails if the id has a row
ConfigureNetwork(i, ip, env) ==
    /\ ip \in generate_private_ip
    /\ Created(i, env, {})
    /\ IF i \in net_configs
       THEN UNCHANGED <<net_configs, ip_address>>
       ELSE /\ net_configs' = net_configs \cup {i}
            /\ ip_address' = [ip_address EXCEPT ![i] = ip]
    /\ UNCHANGED managerframe

\* cleanup_network: destroy the namespace of the row, delete the row
CleanupNetwork(i) ==
    /\ i \in net_configs
    /\ Destroyed(i)
    /\ ns_call' = NsCall("destroy_namespace", i, {}, TRUE, TRUE)
    /\ rt_call' = NoRtCall
    /\ net_configs' = net_configs \ {i}
    /\ ip_address' = [ip_address EXCEPT ![i] = None]
    /\ UNCHANGED managerframe

ManagerNext ==
    \/ \E i \in Ids, ip \in generate_private_ip, env \in {"none", "route_add"} :
          ConfigureNetwork(i, ip, env)
    \/ \E i \in Ids : CleanupNetwork(i)

ManagerSpec == Init /\ [][ManagerNext]_vars

\* -------------------------------------------------------- traffic router
\* Proxies a routing call can name
Proxies == {"proxy-a", "proxy-b"}
ProxyTypes == {"http", "socks5"}

\* iptables -A OUTPUT -s <address of ns> -d <proxy> ... -j ACCEPT, on the host
HostAccept(ns, proxy) == [src |-> ns, dst |-> proxy]
\* iptables -t nat -A OUTPUT -p tcp --dport <dport> -j DNAT --to <proxy>
Dnat(dport, proxy) == [dport |-> dport, to |-> proxy]
\* iptables -t nat -A OUTPUT -p tcp -j PROXY (the chain that redirects to
\* the local redsocks port)
JumpProxy == [dport |-> "tcp", to |-> "PROXY"]

\* A command run with `ip netns exec ns` works only if the namespace
\* exists; run with check=False, its failure goes unnoticed
InNamespace(ns, chain, added) == IF ns \in netns THEN chain \o added ELSE chain

\* _configure_http_proxy_routing: one rule appended to the host's OUTPUT
\* chain, two DNAT rules appended inside the namespace, the entry written
HttpRouted(ns, proxy) ==
    /\ host_output' = Append(host_output, HostAccept(ns, proxy))
    /\ nat_output' = [nat_output EXCEPT ![ns] =
           InNamespace(ns, @, <<Dnat("80", proxy), Dnat("443", proxy)>>)]
    /\ namespace_routes' = [namespace_routes EXCEPT ![ns] = Route("http_proxy", proxy)]
    /\ UNCHANGED redsocks

\* _configure_socks5_routing once `which redsocks` has succeeded: redsocks
\* started inside the namespace, the PROXY chain appended to nat OUTPUT
SocksRouted(ns, proxy) ==
    /\ redsocks' = IF ns \in netns THEN redsocks \cup {ns} ELSE redsocks
    /\ nat_output' = [nat_output EXCEPT ![ns] = InNamespace(ns, @, <<JumpProxy>>)]
    /\ namespace_routes' = [namespace_routes EXCEPT ![ns] = Route("socks5_proxy", proxy)]
    /\ UNCHANGED host_output

\* what the router never touches
routerframe == <<lifecyclevars, scriptvars, links, ns_rules, restvars>>

\* (variant for C26: without the fallback, a missing redsocks ends the
\* call with False and nothing written)
ConfigureProxyRoutingNoFallback(ns, type, proxy, which) ==
    /\ Len(nat_output[ns]) + 2 <= MaxRules
    /\ Len(host_output) < MaxRules
    /\ IF type = "socks5"
       THEN IF which THEN SocksRouted(ns, proxy)
            ELSE UNCHANGED <<namespace_routes, nat_output, host_output, redsocks>>
       ELSE HttpRouted(ns, proxy)
    /\ rt_call' = RtCall("configure_proxy_routing", ns, <<type, proxy, which>>,
                         type # "socks5" \/ which)
    /\ ns_call' = NoNsCall
    /\ UNCHANGED <<filter_output, routerframe>>

\* configure_proxy_routing: socks5 goes to redsocks when `which redsocks`
\* succeeds (which) and to the HTTP routing when it raises
\* CalledProcessError; anything else is HTTP routing
ConfigureProxyRouting(ns, type, proxy, which) ==
    /\ Len(nat_output[ns]) + 2 <= MaxRules
    /\ Len(host_output) < MaxRules
    /\ IF type = "socks5" /\ which
       THEN SocksRouted(ns, proxy)
       ELSE HttpRouted(ns, proxy)
    /\ rt_call' = RtCall("configure_proxy_routing", ns, <<type, proxy, which>>, TRUE)
    /\ ns_call' = NoNsCall
    /\ UNCHANGED <<filter_output, routerframe>>

\* remove_routing_rules: nothing is done for a namespace that has no entry;
\* otherwise both tables inside the namespace are flushed and the entry is
\* deleted. The redsocks process is left running and the host's OUTPUT
\* chain is left alone.
RemoveRoutingRules(ns) ==
    /\ IF namespace_routes[ns] = NoRoute
       THEN UNCHANGED <<namespace_routes, nat_output, filter_output>>
       ELSE /\ nat_output' = [nat_output EXCEPT ![ns] = <<>>]
            /\ filter_output' = [filter_output EXCEPT ![ns] = <<>>]
            /\ namespace_routes' = [namespace_routes EXCEPT ![ns] = NoRoute]
    /\ rt_call' = RtCall("remove_routing_rules", ns, <<>>, TRUE)
    /\ ns_call' = NoNsCall
    /\ UNCHANGED <<host_output, redsocks, routerframe>>

\* update_proxy_config: the entry of the namespace once
\* remove_routing_rules has run, and the ip_address read from it; every
\* entry written holds one
RouteAfterRemove(ns) == [namespace_routes EXCEPT ![ns] = NoRoute][ns]
IpAfterRemove(ns) == IF RouteAfterRemove(ns) = NoRoute THEN None ELSE ns

\* update_proxy_config: remove_routing_rules, then the address is looked
\* up in the entry, then configure_proxy_routing with it; without an
\* address it returns False after the removal
UpdateProxyConfig(ns, type, proxy, which) ==
    /\ IF IpAfterRemove(ns) = None
       THEN /\ IF namespace_routes[ns] = NoRoute
               THEN UNCHANGED <<namespace_routes, nat_output, filter_output>>
               ELSE /\ nat_output' = [nat_output EXCEPT ![ns] = <<>>]
                    /\ filter_output' = [filter_output EXCEPT ![ns] = <<>>]
                    /\ namespace_routes' = [namespace_routes EXCEPT ![ns] = NoRoute]
            /\ UNCHANGED <<host_output, redsocks>>
            /\ rt_call' = RtCall("update_proxy_config", ns, <<type, proxy, which>>, FALSE)
       ELSE /\ Len(host_output) < MaxRules
            /\ filter_output' = [filter_output EXCEPT ![ns] = <<>>]
            /\ nat_output' = [nat_output EXCEPT ![ns] =
                   InNamespace(ns, <<>>,
                       IF type = "socks5" /\ which THEN <<JumpProxy>>
                       ELSE <<Dnat("80", proxy), Dnat("443", proxy)>>)]
            /\ namespace_routes' = [namespace_routes EXCEPT ![ns] =
                   Route(IF type = "socks5" /\ which THEN "socks5_proxy"
                         ELSE "http_proxy", proxy)]
            /\ host_output' = IF type = "socks5" /\ which THEN host_output
                              ELSE Append(host_output, HostAccept(ns, proxy))
            /\ redsocks' = IF type = "socks5" /\ which /\ ns \in netns
                           THEN redsocks \cup {ns} ELSE redsocks
            /\ rt_call' = RtCall("update_proxy_config", ns, <<type, proxy, which>>, TRUE)
    /\ ns_call' = NoNsCall
    /\ UNCHANGED routerframe

\* A rule of a filter chain: what it matches and its target
Rule(match, port, target) == [match |-> match, port |-> port, target |-> target]

RuleKeys == {"blocked_domains", "blocked_ips", "rate_limit", "allowed_ports"}

\* iptables -I OUTPUT for each allowed port in turn, tcp then udp: every
\* insertion goes to the head of the chain
RECURSIVE InsertPorts(_, _)
InsertPorts(chain, ports) ==
    IF ports = <<>> THEN chain
    ELSE InsertPorts(<<Rule("udp_dport", Head(ports), "ACCEPT"),
                       Rule("tcp_dport", Head(ports), "ACCEPT")>> \o chain,
                     Tail(ports))

\* apply_custom_rules: the chain after the commands it runs, in its order
CustomChain(chain, rules) ==
    LET domains == IF "blocked_domains" \in rules.keys
                   THEN Append(chain, Rule("dns_string", None, "DROP")) ELSE chain
        ips     == IF "blocked_ips" \in rules.keys
                   THEN Append(domains, Rule("dst_ip", None, "DROP")) ELSE domains
        limit   == IF "rate_limit" \in rules.keys
                   THEN Append(ips, Rule("limit", None, "ACCEPT")) ELSE ips
    IN  IF "allowed_ports" \in rules.keys
        THEN <<Rule("established", None, "ACCEPT")>> \o
             InsertPorts(Append(limit, Rule("all", None, "DROP")), rules.allowed_ports)
        ELSE limit

\* A packet leaving the namespace, as the rules above see it
Packet(proto, port, established, blocked_ip, blocked_name, within_limit) ==
    [proto |-> proto, port |-> port, established |-> established,
     blocked_ip |-> blocked_ip, blocked_name |-> blocked_name,
     within_limit |-> within_limit]

Matches(rule, pkt) ==
    CASE rule.match = "dns_string"  -> pkt.proto = "udp" /\ pkt.port = 53 /\ pkt.blocked_name
      [] rule.match = "dst_ip"      -> pkt.blocked_ip
      [] rule.match = "limit"       -> pkt.within_limit
      [] rule.match = "tcp_dport"   -> pkt.proto = "tcp" /\ pkt.port = rule.port
      [] rule.match = "udp_dport"   -> pkt.proto = "udp" /\ pkt.port = rule.port
      [] rule.match = "established" -> pkt.established
      [] OTHER                      -> TRUE

\* First-match evaluation of a chain whose policy is ACCEPT
RECURSIVE Verdict(_, _)
Verdict(chain, pkt) ==
    IF chain = <<>> THEN "ACCEPT"
    ELSE IF Matches(Head(chain), pkt) THEN Head(chain).target
    ELSE Verdict(Tail(chain), pkt)

\* rules dictionaries handed to the router next to routing calls
RouterRules == {CustomRules({"blocked_ips"}, <<>>),
                CustomRules({"allowed_ports"}, <<443>>)}

\* apply_custom_rules: every command is run inside the namespace with
\* check=False; no entry is written to namespace_routes
ApplyCustomRules(ns, rules) ==
    /\ filter_output[ns] = <<>>
    /\ filter_output' = [filter_output EXCEPT ![ns] =
           IF ns \in netns THEN CustomChain(@, rules) ELSE @]
    /\ rt_call' = RtCall("apply_custom_rules", ns, <<>>, TRUE)
    /\ ns_call' = NoNsCall
    /\ UNCHANGED <<namespace_routes, nat_output, host_output, redsocks, routerframe>>

\* The router next to the isolator. The router keeps its state per
\* namespace, and the host chain is shared: one name shows both.
RouterNames == {1}

RouterNext ==
    \/ \E ns \in RouterNames, env \in {"none", "route_add"} : CreateNamespace(ns, env, {})
    \/ \E ns \in RouterNames : DestroyNamespace(ns)
    \/ \E ns \in RouterNames, type \in ProxyTypes, proxy \in Proxies, which \in BOOLEAN :
          ConfigureProxyRouting(ns, type, proxy, which)
    \/ \E ns \in RouterNames, rules \in RouterRules : ApplyCustomRules(ns, rules)
    \/ \E ns \in RouterNames : RemoveRoutingRules(ns)
    \/ \E ns \in RouterNames, type \in ProxyTypes, proxy \in Proxies, which \in BOOLEAN :
          UpdateProxyConfig(ns, type, proxy, which)

RouterSpec == Init /\ [][RouterNext]_vars

\* ---------------------------------------------- apply_custom_rules alone
\* destination ports of the rules dictionaries and packets considered
EgressPorts == {53, 80, 443}

\* lists under allowed_ports: up to two distinct ports
PortLists ==
    {<<>>} \cup {<<p>> : p \in EgressPorts}
           \cup {pq \in EgressPorts \X EgressPorts : pq[1] # pq[2]}

\* the rules dictionaries a caller may hand over
RulesDicts ==
    {CustomRules(keys, ports) : keys \in SUBSET RuleKeys, ports \in PortLists}

CustomRulesInit ==
    /\ ServicesInit
    /\ ScriptInit
    /\ cr_rules \in {r \in RulesDicts :
                        "allowed_ports" \notin r.keys => r.allowed_ports = <<>>}
    /\ cr_chain = <<>>
    /\ tc_checks = <<>>
    /\ tc_results = NotTested

\* apply_custom_rules on a namespace whose OUTPUT chain is empty
ApplyCustomRulesAlone ==
    /\ cr_chain = <<>>
    /\ cr_chain' = CustomChain(<<>>, cr_rules)
    /\ UNCHANGED <<lifecyclevars, scriptvars, isolatorvars, routervars,
                   ip_address, rejected, cr_rules, tc_checks, tc_results,
                   monitorvars>>

CustomRulesSpec == CustomRulesInit /\ [][ApplyCustomRulesAlone]_vars

\* ----------------------------------------------- test_connectivity alone
\* the checks in the order their commands are run
CheckOrder == <<"namespace_exists", "interface_up", "ip_assigned",
                "default_route", "dns", "internet">>

\* How a check's command ends: its output passes or fails the test, or
\* subprocess.run raises; only the two commands run with a timeout can
\* raise TimeoutExpired
Outcomes(check) ==
    IF check \in {"dns", "internet"} THEN {"pass", "fail", "timeout", "raise"}
    ELSE {"pass", "fail", "raise"}

\* no command inside a namespace that is not listed passes
CheckRuns ==
    {f \in [Range(CheckOrder) -> {"pass", "fail", "timeout", "raise"}] :
        /\ \A c \in Range(CheckOrder) : f[c] \in Outcomes(c)
        /\ f["namespace_exists"] = "fail" =>
               \A c \in Range(CheckOrder) : f[c] = "fail"}

\* test_connectivity from its k-th check on: one try block around all of
\* them, both handlers fall through to `return results`
RECURSIVE TestFrom(_, _, _)
TestFrom(k, checks, sofar) ==
    IF k > Len(CheckOrder) THEN Connectivity(TRUE, sofar.results, sofar.evaluated)
    ELSE LET c   == CheckOrder[k]
             ran == sofar.evaluated \cup {c}
         IN  IF checks[c] \in {"timeout", "raise"}
             THEN Connectivity(TRUE, sofar.results, ran)
             ELSE IF c = "namespace_exists" /\ checks[c] = "fail"
             THEN Connectivity(TRUE, sofar.results, ran)
             ELSE TestFrom(k + 1, checks,
                           Connectivity(FALSE,
                               [sofar.results EXCEPT ![c] = (checks[c] = "pass")],
                               ran))

test_connectivity(checks) == TestFrom(1, checks, NotTested)

ConnectivityInit ==
    /\ ServicesInit
    /\ ScriptInit
    /\ cr_rules = NoRules
    /\ cr_chain = <<>>
    /\ tc_checks \in CheckRuns
    /\ tc_results = NotTested

TestConnectivity ==
    /\ ~tc_results.returned
    /\ tc_results' = test_connectivity(tc_checks)
    /\ UNCHANGED <<lifecyclevars, scriptvars, isolatorvars, routervars,
                   ip_address, rejected, cr_rules, cr_chain, tc_checks,
                   monitorvars>>

ConnectivitySpec == ConnectivityInit /\ [][TestConnectivity]_vars

\* C6 (as stated): every instance persisted in Creating eventually reaches
\* Running or Failed.
C6_CreatingReachesRunningOrFailed ==
    \A i \in Ids : InState(i, {"creating"}) ~> InState(i, {"running", "failed"})

\* C6 (amended): every instance persisted in Creating eventually reaches
\* Running or Failed, or its row is deleted first.
C6_CreatingReachesRunningFailedOrDeleted ==
    \A i \in Ids : InState(i, {"creating"}) ~>
                       (InState(i, {"running", "failed"}) \/ ~Exists(i))
\* ===================================================================== C1
Live(i) == containers[i].status # "absent"

Final == {"done", "failed", "escaped"}

PortsFree(i, used) ==
    /\ container_info[i].vnc \notin used.vnc
    /\ container_info[i].adb \notin used.adb

\* C2: when delete_instance(id) completes for an instance whose provisioning
\* has ended (Running, or failed at some step), the ports reserved for it are
\* absent from used_ports.
C2_DeleteFreesPorts ==
    [][\A i \in Ids :
          (Exists(i) /\ instances'[i].status = "absent" /\ pc[i] \in Final)
              => PortsFree(i, used_ports')]_vars

\* ===================================================================== C3
Owners(t, p) ==
    {i \in Ids : Exists(i) /\ Live(i)
                 /\ (IF t = "vnc" THEN containers[i].vnc ELSE containers[i].adb) = p}

\* C3: used_ports is a subset of port_pool, and a port is in used_ports
\* exactly when it is owned by the sandbox of one existing instance.
C3_UsedIffOwned ==
    \A t \in PortTypes :
        /\ used_ports[t] \subseteq port_pool[t]
        /\ \A p \in port_pool[t] :
              p \in used_ports[t] <=> Cardinality(Owners(t, p)) = 1

\* ===================================================================== C4
\* C4: when delete_instance removed the row while it was Configuring (the
\* network manager's cleanup included) and the provisioning task has ended
\* too, both ports are free, no sandbox of the instance exists and its
\* namespace is absent.
C4_DeleteWhileConfiguringCleansUp ==
    \A i \in Ids :
        (deleted_in[i] = "configuring" /\ pc[i] \in Final /\ i \notin net_configs) =>
            /\ PortsFree(i, used_ports)
            /\ ~Live(i)
            /\ i \notin netns

\* ===================================================================== C5
\* C5: an instance is never Running without having been Configuring since
\* it was Creating (the task sets Configuring in its first step, so a row
\* whose task is still queued has never been Configuring).
C5_RunningOnlyAfterConfiguring ==
    \A i \in Ids : InState(i, {"running"}) => pc[i] # "queued"

\* ===================================================================== C6
\* The task of a persisted instance has ended and left its row Running or
\* Failed.
C6_TaskEndedRunningOrFailed ==
    \E i \in Ids : pc[i] \in {"done", "failed"} /\ InState(i, {"running", "failed"})

\* ===================================================================== C7
\* C7: when a provisioning step raises, the task ends with the exception
\* caught, the row Failed and its error_message set; nothing escapes the
\* task.
C7_FailureCaughtAndRecorded ==
    [][\A i \in Ids :
          (pc[i] \in {"create", "configure", "start", "finish"}
           /\ pc'[i] \in {"failed", "escaped"}) =>
              /\ pc'[i] = "failed"
              /\ instances'[i].status = "failed"
              /\ instances'[i].error_message # ""]_vars

\* ===================================================================== C8
RECURSIVE Increasing(_, _)
\* the steps of seq occur in the order given by rank, none twice
Increasing(seq, rank) ==
    IF Len(seq) < 2 THEN TRUE
    ELSE rank[seq[1]] < rank[seq[2]] /\ Increasing(Tail(seq), rank)

StepNames == {"namespace", "routing", "ports", "sandbox", "configure", "start"}

ClaimedRank == [n \in StepNames |->
    CASE n = "ports" -> 1 [] n = "sandbox" -> 2 [] n = "namespace" -> 3
      [] n = "routing" -> 4 [] n = "configure" -> 5 [] OTHER -> 6]

CodeRank == [n \in StepNames |->
    CASE n = "namespace" -> 1 [] n = "routing" -> 2 [] n = "ports" -> 3
      [] n = "sandbox" -> 4 [] n = "configure" -> 5 [] OTHER -> 6]

ExternalFailures == {"Container creation failed", "Android configuration failed",
                     "location request failed"}

\* C9: with OS version 13, free ports in both pools and no external call
\* failing, the provisioning task of an existing row does not end Failed: it
\* ends with the row Running and holding a port of each pool.
C9_Version13EndsRunning ==
    [][\A i \in Ids :
          (/\ pc[i] \notin Final /\ pc'[i] \in Final
           /\ request[i].android_version = "13"
           /\ ~(pc[i] = "create" /\ (Available("vnc") = {} \/ Available("adb") = {}))
           /\ Exists(i) /\ instances'[i].status # "absent"
           /\ instances'[i].error_message \notin ExternalFailures)
          => /\ instances'[i].status = "running"
             /\ instances'[i].vnc_port \in port_pool.vnc
             /\ instances'[i].adb_port \in port_pool.adb]_vars

\* ==================================================================== C10
\* C10: an instance whose sandbox crashed while it was Running, and which
\* the next health sweep marked Failed, goes on to Creating (and from there
\* to Running) under the same id.
C10_FailedBySweepIsRecreated ==
    \A i \in Ids :
        (/\ InState(i, {"failed"})
         /\ instances[i].error_message = "Container health check failed"
         /\ instances[i].container_id = i
         /\ containers[i].status = "exited")
            ~> InState(i, {"creating"})

\* ==================================================================== C11
\* C11: when restart_container returns, the id is tracked with the config it
\* had before the restart and its container runs with that config.
C11_RestartKeepsIdAndSpec ==
    [][\A i \in Ids :
          (sc_restart[i] # Untracked /\ sc_restart'[i] = Untracked) =>
              /\ sc_containers'[i] = sc_restart[i]
              /\ sc_docker'[i].android_version = sc_restart[i]]_vars

\* ==================================================================== C12
\* the request served by this step, if it is one of the logged kinds
Serves(op, i) == ops' # ops /\ last_call'.op = op /\ last_call'.id = i

TeardownSteps == {"remove", "cleanup_network", "release_ports", "delete_record"}

\* C12: delete_instance on an instance with a recorded sandbox attempts the
\* removal of the sandbox, the network cleanup, the release of the ports and
\* the deletion of the record, whatever fails on the way, and ends with the
\* record removed.
C12_DeleteAttemptsEveryStep ==
    [][\A i \in Ids :
          (Serves("delete", i) /\ instances[i].container_id # None) =>
              /\ TeardownSteps \subseteq last_call'.calls
              /\ instances'[i].status = "absent"]_vars

\* ==================================================================== C13
\* C13: start_instance on a Running instance and stop_instance on a Stopped
\* instance make no orchestrator call, write no timestamp and leave the row
\* and the sandboxes as they are.
C13_StartStopInTargetStateAreNoOps ==
    [][\A i \in Ids :
          (\/ Serves("start", i) /\ instances[i].status = "running"
           \/ Serves("stop", i) /\ instances[i].status = "stopped") =>
              /\ last_call'.calls = {}
              /\ instances'[i] = instances[i]
              /\ containers' = containers]_vars

\* ==================================================================== C15
\* C15: when the provisioning task fails at a step after create_container
\* has reserved the ports (configuration, start, or what follows), both
\* reserved ports are back in their pools when the task ends.
C15_LaterFailureReleasesPorts ==
    [][\A i \in Ids :
          (pc[i] \in {"configure", "start", "finish"}
           /\ pc'[i] \in {"failed", "escaped"}) =>
              PortsFree(i, used_ports')]_vars

\* ==================================================================== C16
\* C16: create_container with an OS version that has no image fails with
\* the unsupported-version error, which becomes the row's error message,
\* and it reserves no port and creates no sandbox.
C16_UnsupportedVersionIsReported ==
    [][\A i \in Ids :
          (/\ pc[i] = "create" /\ pc'[i] # "create"
           /\ request[i].android_version \notin redroid_images
           /\ Exists(i) /\ Exists(i)') =>
              /\ instances'[i].status = "failed"
              /\ instances'[i].error_message = "Unsupported Android version"
              /\ used_ports' = used_ports
              /\ containers' = containers]_vars

\* ==================================================================== C17
\* C17: RedroidManager.remove_container attempts the force-remove also when
\* the stop before it failed, and releases the two ports the sandbox was
\* bound to.
C17_RemoveAttemptedAfterFailedStop ==
    [][\A i \in Ids :
          Serves("redroid_remove", i) =>
              /\ "remove" \in last_call'.calls
              /\ (containers'[i].status = "absent" =>
                     /\ containers[i].vnc \notin used_ports'.vnc
                     /\ containers[i].adb \notin used_ports'.adb)]_vars

\* ==================================================================== C14
\* C14: when a sweep ends, every row it loaded that is still Running and
\* whose sandbox is not running has been marked Failed, whatever happened
\* to the other rows of the sweep.
C14_SweepUpdatesEveryOtherRow ==
    [][(sweep_pc = "loaded" /\ sweep_pc' = "idle") =>
          \A r \in sweep_rows :
              (/\ instances[r.id].status = "running"
               /\ r.container_id # None
               /\ containers[r.container_id].status # "running")
                  => instances'[r.id].status = "failed"]_vars

C19_DestroyUnknownIsNoOp ==
    [][(/\ ns_call'.op = "destroy_namespace"
        /\ ns_call'.ns \notin active_namespaces
        /\ ns_call'.ns \notin netns) =>
          /\ ns_call'.result
          /\ active_namespaces' = active_namespaces
          /\ netns' = netns
          /\ links' = links
          /\ ns_rules' = ns_rules]_vars

\* ==================================================================== C20
\* C20: a namespace's per-address rules are installed exactly when the
\* namespace is registered.
C20_RulesIffRegistered ==
    \A ns \in NsNames : ns \in ns_rules <=> ns \in active_namespaces

\* ==================================================================== C21
\* C21: after destroy_namespace(n), called directly or by a failed
\* create_namespace, no filter or NAT rule scoped to n's address is left:
\* not in the forwarding and NAT chains, not in the host's OUTPUT chain,
\* not inside the namespace.
C21_NoResidualRulesAfterDestroy ==
    [][ns_call'.destroyed =>
          /\ ns_call'.ns \notin ns_rules'
          /\ \A k \in DOMAIN host_output' : host_output'[k].src # ns_call'.ns
          /\ nat_output'[ns_call'.ns] = <<>>
          /\ filter_output'[ns_call'.ns] = <<>>]_vars

\* ==================================================================== C23
\* The redirect rules one routing call installs for the entry it writes
RedirectOf(route) ==
    IF route.type = "http_proxy"
    THEN <<Dnat("80", route.proxy), Dnat("443", route.proxy)>>
    ELSE <<JumpProxy>>

\* C23: configure_proxy_routing on a namespace that already has redirect
\* rules leaves exactly the redirect rules of the proxy it was called
\* with, so that a second call with the same proxy changes nothing.
C23_ReconfigureReplacesRedirect ==
    [][\A ns \in RouterNames :
          (/\ rt_call'.op = "configure_proxy_routing"
           /\ rt_call'.ns = ns
           /\ nat_output[ns] # <<>>)
              => nat_output'[ns] = RedirectOf(namespace_routes'[ns])]_vars

\* ==================================================================== C24
\* C24: remove_routing_rules(ns) succeeds whether or not routing was
\* configured, and afterwards the namespace holds no rule the router
\* applied, redirect or custom, and has no entry in namespace_routes.
C24_RemoveLeavesNoRouterRules ==
    [][\A ns \in RouterNames :
          (rt_call'.op = "remove_routing_rules" /\ rt_call'.ns = ns) =>
              /\ rt_call'.result
              /\ nat_output'[ns] = <<>>
              /\ filter_output'[ns] = <<>>
              /\ namespace_routes'[ns] = NoRoute]_vars

C28_FailedNamespaceNotStored ==
    [][\A i \in Ids :
        (pc[i] = "none" /\ pc'[i] = "queued" /\ i \notin netns')
            => /\ i \notin net_configs'
               /\ ~instances'[i].network_config]_vars

\* Packets that open a new connection out of the namespace
NewEgress ==
    {Packet(proto, port, FALSE, ip, name, limit) :
        proto \in {"tcp", "udp"}, port \in EgressPorts,
        ip \in BOOLEAN, name \in BOOLEAN, limit \in BOOLEAN}

\* C25: after apply_custom_rules with an allowed_ports set, new egress to
\* any port outside the set is denied under first-match evaluation of the
\* OUTPUT chain, whatever other rules were given in the same call.
C25_AllowedPortsDenyOtherEgress ==
    ("allowed_ports" \in cr_rules.keys /\ cr_chain # <<>>) =>
        \A pkt \in NewEgress :
            pkt.port \notin Range(cr_rules.allowed_ports)
                => Verdict(cr_chain, pkt) = "DROP"

\* C29: test_connectivity evaluates its checks independently: on a
\* namespace that is listed, whatever way one check ends (failure,
\* timeout or exception), every later check is still evaluated and its
\* own outcome reported; the call always returns the structured result.
C29_ChecksIndependent ==
    (tc_results.returned /\ tc_checks["namespace_exists"] = "pass") =>
        \A c \in Range(CheckOrder) :
            /\ c \in tc_results.evaluated
            /\ tc_results.results[c] = (tc_checks[c] = "pass")

\* C27: start, stop, restart, delete, stats, logs and exec on an unknown
\* instance id each fail with the NotFound error kind, never with a
\* generic internal error, and change no state.
C27_UnknownIdAnswersNotFound ==
    [][(rejected' # rejected /\ rejected'.op \in GuardedOps
            /\ ~Exists(rejected'.id))
          => /\ rejected'.status = NotFound
             /\ UNCHANGED <<lifecyclevars, scriptvars, isolatorvars,
                            routervars, ip_address, purevars,
                            monitorvars>>]_vars

\* C22: no two namespaces that exist at the same time are assigned the
\* same private address.
C22_LiveNamespacesHaveDistinctAddresses ==
    \A i, j \in Ids :
        (i # j /\ i \in netns /\ j \in netns
             /\ i \in net_configs /\ j \in net_configs)
            => ip_address[i] # ip_address[j]

\* C30: in a monitor sweep an instance is restarted exactly when it is
\* not running and the restart policy is always, or it is running and its
\* health is critical (then regardless of the policy); a healthy instance,
\* or one whose health is warning, timeout or error, is never restarted.
C30_MonitorRestartsExactlyWhenDue ==
    [][\A i \in Ids :
        (sc_seen' # NoSeen /\ sc_seen'.id = i) =>
            ((sc_restart[i] = Untracked /\ sc_restart'[i] # Untracked
                  /\ sc_containers'[i] = Untracked)
             <=> \/ sc_seen'.status # "running" /\ sc_policy = "always"
                 \/ sc_seen'.status = "running" /\ sc_seen'.health = "critical")]_vars

\* C30 witness: the monitor saw a running container in critical health
\* under a policy other than always, and its restart is under way.
C30_CriticalRestartedUnderOtherPolicy ==
    /\ sc_seen # NoSeen
    /\ sc_seen.status = "running"
    /\ sc_seen.health = "critical"
    /\ sc_policy # "always"
    /\ sc_restart[sc_seen.id] # Untracked

\* C31: generate_private_ip always returns an address inside the subnet
\* 172.20.0.0/16 and never a reserved gateway address, in particular never
\* the bridge gateway that every namespace uses as its default route.
C31_AddressInSubnetAndNotGateway ==
    \A i \in net_configs :
        /\ ip_address[i][1] = 172 /\ ip_address[i][2] = 20
        /\ ip_address[i] \notin ReservedGateways \cup {BridgeGateway}

\* C32: whenever an instance's state is set to Running, the instance has
\* a non-null container handle, and when start_instance (directly or from
\* restart_instance) set it, the Orchestrator's start call for that handle
\* reported success, that is, the container is running as the call returns.
C32_RunningHasStartedContainer ==
    [][\A i \in Ids :
        (instances[i].status # "running" /\ instances'[i].status = "running")
            => /\ instances'[i].container_id # None
               /\ (ops' # ops \/ restarting' # restarting)
                      => containers'[instances'[i].container_id].status = "running"]_vars

\* C33: when a health sweep ends, a row it had read as Running and that
\* stop_instance has set to Stopped since is still Stopped, and a row
\* that delete_instance has removed since is still absent.
C33_SweepKeepsStoppedAndDeleted ==
    [][(sweep_pc = "loaded" /\ sweep_pc' = "idle") =>
          \A r \in sweep_rows :
              /\ instances[r.id].status = "stopped"
                     => instances'[r.id].status = "stopped"
              /\ ~Exists(r.id) => instances'[r.id] = AbsentInstance]_vars

\* C34: a failed create_namespace(n) and the cleanup it triggers leave
\* every registered namespace as it was, the one of the same name and
\* the ones whose link name coincides with n's included: each keeps its
\* registration, its namespace and its link.
C34_FailedCreateSparesRegistered ==
    [][(ns_call'.op = "create_namespace" /\ ~ns_call'.result) =>
          \A m \in active_namespaces :
              /\ m \in active_namespaces'
              /\ m \in netns => m \in netns'
              /\ veth_host(m) \in links => veth_host(m) \in links']_vars

\* C35: when restart_container returns, whether its re-create succeeded
\* or failed, the id is still tracked in self.containers.
C35_RestartKeepsIdTracked ==
    [][\A i \in Ids :
          (sc_restart[i] # Untracked /\ sc_restart'[i] = Untracked) =>
              sc_containers'[i] # Untracked]_vars

\* C36: once cleanup_all has returned, no container is created or tracked
\* by a restart the monitor thread had begun: when that restart ends, the
\* id has no container and is not tracked.
C36_NoRecreateAfterCleanup ==
    [][\A i \in Ids :
          (sc_cleaned /\ sc_restart[i] # Untracked /\ sc_restart'[i] = Untracked)
              => /\ sc_docker'[i].status = "absent"
                 /\ sc_containers'[i] = Untracked]_vars

\* C37: at most one monitor loop is active at any time, under any
\* sequence of start_monitoring and stop_monitoring calls.
C37_AtMostOneMonitorLoop == sc_threads <= 1

\* C38: after apply_custom_rules with blocked_ips, new egress to a blocked
\* address is dropped on every port under first-match evaluation of the
\* OUTPUT chain, also when allowed_ports or rate_limit is given in the
\* same call.
C38_BlockedAddressDroppedOnEveryPort ==
    ("blocked_ips" \in cr_rules.keys /\ cr_chain # <<>>) =>
        \A pkt \in NewEgress :
            pkt.blocked_ip => Verdict(cr_chain, pkt) = "DROP"

\* C39: update_proxy_config on a namespace that has proxy routing
\* configured returns success and leaves it registered with the new proxy;
\* were it to return failure, the previous entry and redirect rules would
\* still be in place.
C39_UpdateInstallsNewProxy ==
    [][\A ns \in RouterNames :
          (rt_call'.op = "update_proxy_config" /\ rt_call'.ns = ns
               /\ namespace_routes[ns] # NoRoute)
              => /\ rt_call'.result
                 /\ namespace_routes'[ns].proxy = rt_call'.detail[2]
                 /\ ~rt_call'.result =>
                        /\ namespace_routes'[ns] = namespace_routes[ns]
                        /\ nat_output'[ns] = nat_output[ns]]_vars

====
